---- MODULE Spec2Model ----
(***************************************************************************)
(* The book recommender of app.py: the module globals popular_df, pt,      *)
(* scores and all_books, the loader load_model_components(), the lookup    *)
(* recommend(book_name) and the request hook startup().                    *)
(*                                                                         *)
(* Python values are records carrying their type.  Similarity scores are   *)
(* integers (hundredths of the floats of the pickle).  Python positions    *)
(* are 0-based, TLA+ sequences 1-based: a position p of the code is        *)
(* element p + 1 of the sequence.                                          *)
(***************************************************************************)
EXTENDS Integers, Sequences, FiniteSets, TLC

VARIABLES
    popular_df,   \* global popular_df (app.py:11)
    pt,           \* global pt (app.py:12)
    scores,       \* global scores (app.py:13)
    all_books,    \* global all_books (app.py:14)
    ret,          \* the last call of the core and what it gave back
    load_calls,   \* how many times startup() has called the loader
    loader,       \* a request thread inside load_model_components()
    reader        \* a request thread inside recommend()

store_vars == <<popular_df, pt, scores, all_books>>
vars == <<popular_df, pt, scores, all_books, ret, load_calls, loader, reader>>

----------------------------------------------------------------------------
(* Bounds of the model *)

\* most rows of the pivots and similarity matrices the pickles of Spec hold
LoadRows == 3
\* rows of the popularity tables the pickles of Spec hold
PopRows == 2
\* rows of the pivots of SpecRecommend (7 rows: a sixth candidate is cut)
MaxRows == 7
\* the scores of SpecRecommend range over 0..MaxScore
MaxScore == 1
\* requests served in SpecApp
MaxRequests == 3
\* rows a modelled draw of Series.sample() may start from
SampleStarts == 3

----------------------------------------------------------------------------
(* Python values *)

None == [type |-> "NoneType"]

DataFrame(index, columns, data) ==
    [type |-> "DataFrame", index |-> index, columns |-> columns, data |-> data]

\* pd.DataFrame(): no rows, no columns
EmptyFrame == DataFrame(<<>>, {}, [c \in {} |-> <<>>])

IsDataFrame(v) == v.type = "DataFrame"

\* DataFrame.empty: some axis has length 0
Empty(df) == Len(df.index) = 0 \/ df.columns = {}

RangeIndex(n) == [i \in 1..n |-> i - 1]

Min(a, b) == IF a <= b THEN a ELSE b

\* popular_df['Book-Title'] raises unless popular_df is a table with that column
HasTitles(v) == IsDataFrame(v) /\ "Book-Title" \in v.columns

BookTitles(df) == df.data["Book-Title"]

\* Series.unique(): the distinct values in order of first appearance
Unique(s) ==
    LET IsFirst(p) == \A j \in 1..(p[1] - 1) : s[j] # p[2]
        kept == SelectSeq([i \in 1..Len(s) |-> <<i, s[i]>>], IsFirst)
    IN  [k \in 1..Len(kept) |-> kept[k][2]]

Range(s) == {s[i] : i \in 1..Len(s)}

----------------------------------------------------------------------------
(* The fallback data of the loader's except branch *)

MockCount == 50

MockColumns ==
    {"Book-Title", "Book-Author", "Image-URL-M", "Num-Ratings", "Avg-Rating"}

\* app.py:57-62: row i of 1..50, column by column; Avg-Rating in hundredths
MockData ==
    ("Book-Title" :> [i \in 1..MockCount |-> "Mock Popular Book " \o ToString(i)]) @@
    ("Book-Author" :> [i \in 1..MockCount |-> "Author " \o ToString(i)]) @@
    ("Image-URL-M" :> [i \in 1..MockCount |->
        "https://placehold.co/80x120/4f46e5/ffffff?text=Book" \o ToString(i)]) @@
    ("Num-Ratings" :> [i \in 1..MockCount |-> 1000 + i]) @@
    ("Avg-Rating" :> [i \in 1..MockCount |-> 400 + i])

MockFrame == DataFrame(RangeIndex(MockCount), MockColumns, MockData)

----------------------------------------------------------------------------
(* load_model_components() *)

Store == [popular_df |-> popular_df, pt |-> pt, scores |-> scores,
          all_books |-> all_books]

\* the globals as the module's top level leaves them (app.py:11-14)
InitStore == [popular_df |-> EmptyFrame, pt |-> EmptyFrame, scores |-> None,
              all_books |-> <<>>]

\* dict.get(key, default)
Get(d, key, default) == IF key \in DOMAIN d.items THEN d.items[key] ELSE default

\* app.py:30-40: the shape check and the assignments to the three globals
Classify(s, data) ==
    IF data.type \in {"tuple", "list"} /\ Len(data.items) >= 3
    THEN [s EXCEPT !.popular_df = data.items[1],
                   !.pt = data.items[2],
                   !.scores = data.items[3]]
    ELSE IF data.type = "dict"
    THEN [s EXCEPT !.popular_df = Get(data, "popular_df", s.popular_df),
                   !.pt = Get(data, "pt", s.pt),
                   !.scores = Get(data, "scores", s.scores)]
    ELSE [s EXCEPT !.popular_df = IF IsDataFrame(data) THEN data ELSE EmptyFrame]

\* app.py:43-47 raises: pt has no .empty, or pt is empty and popular_df has no
\* 'Book-Title' to read
PostLoadRaises(s) ==
    \/ ~IsDataFrame(s.pt)
    \/ Empty(s.pt) /\ ~HasTitles(s.popular_df)

\* app.py:43-47: the titles for the dropdown
PostLoad(s) ==
    [s EXCEPT !.all_books = IF ~Empty(s.pt) THEN s.pt.index
                            ELSE Unique(BookTitles(s.popular_df))]

\* the except branch without its line 64: all_books keeps its old value
Fallback_KeepsBooks(s) == [s EXCEPT !.popular_df = MockFrame]

\* app.py:51-64: the except branch; it assigns popular_df and all_books only
Fallback(s) ==
    [s EXCEPT !.popular_df = MockFrame, !.all_books = BookTitles(MockFrame)]

\* whether the try block of app.py:24-49 raises on this file
LoadRaises(s, file) ==
    file.state # "ok" \/ PostLoadRaises(Classify(s, file.data))

\* app.py:22-64: the globals after load_model_components() on this file
LoadResult(s, file) ==
    IF file.state # "ok" THEN Fallback(s)
    ELSE LET g == Classify(s, file.data)
         IN  IF PostLoadRaises(g) THEN Fallback(g) ELSE PostLoad(g)

----------------------------------------------------------------------------
(* recommend(book_name) *)

\* what a call gives back: a list of titles, a one-element list holding a
\* message, or an exception that leaves the function
Titles(book_name, list) ==
    [op |-> "recommend", arg |-> book_name, kind |-> "titles", value |-> list]
Message(book_name, text) ==
    [op |-> "recommend", arg |-> book_name, kind |-> "message", value |-> <<text>>]
Raise(book_name, exc) ==
    [op |-> "recommend", arg |-> book_name, kind |-> "raise", value |-> <<exc>>]

\* app.py:79
Unavailable == "Model data unavailable. Please check backend setup."
\* the message of line 99 without the title put into it
NotFound_NoTitle(book_name) ==
    "Error: '{book_name}' not found in the trained model's index."

\* app.py:99
NotFound(book_name) ==
    "Error: '" \o book_name \o "' not found in the trained model's index."
\* app.py:102
Unexpected == "An unexpected error occurred during recommendation."

\* Series.sample(k): k distinct row positions in a random order.  The draws
\* modelled are the runs of k consecutive rows (cyclically), forwards and
\* backwards, from one of the first SampleStarts rows: every possible draw
\* for tables of at most 3 rows, a subset of them for longer ones.
Sample(n, k) ==
    IF n = 0 THEN {<<>>}
    ELSE {[j \in 1..k |-> ((start - 1 + (j - 1) * step) % n) + 1] :
             start \in 1..Min(n, SampleStarts), step \in {1, n - 1}}

\* app.py:80: popular_df['Book-Title'].sample(min(5, len(popular_df))).tolist()
SampleTitles(df, book_name) ==
    IF ~IsDataFrame(df) THEN {Raise(book_name, "TypeError")}
    ELSE IF ~HasTitles(df) THEN {Raise(book_name, "KeyError")}
    ELSE LET col == BookTitles(df)
             k == Min(5, Len(df.index))
         IN  {Titles(book_name, [j \in 1..k |-> col[rows[j]]]) :
                 rows \in Sample(Len(col), k)}

\* app.py:74-80: the fallback when pt is empty or scores is None
Degraded(s, book_name) ==
    IF ~IsDataFrame(s.popular_df) THEN {Raise(book_name, "AttributeError")}
    ELSE IF Empty(s.popular_df) THEN {Message(book_name, Unavailable)}
    ELSE SampleTitles(s.popular_df, book_name)

\* Index.get_loc(label) finds the label (else KeyError)
InIndex(index, label) == \E i \in 1..Len(index) : index[i] = label
\* Index.get_loc(label): the 0-based position of the label
GetLoc(index, label) == (CHOOSE i \in 1..Len(index) : index[i] = label) - 1

\* enumerate(row): the pairs <<position, score>>, positions from 0
Enumerate(row) == [i \in 1..Len(row) |-> <<i - 1, row[i]>>]

RECURSIVE InsertReverse_TiesFirst(_, _)
\* an ascending sort turned round: of two items of equal score the later one
\* comes first
InsertReverse_TiesFirst(sorted, x) ==
    IF sorted = <<>> THEN <<x>>
    ELSE IF Head(sorted)[2] > x[2]
         THEN <<Head(sorted)>> \o InsertReverse_TiesFirst(Tail(sorted), x)
         ELSE <<x>> \o sorted

RECURSIVE InsertReverse(_, _)
\* one step of the stable descending sort: x goes behind every item whose
\* score is greater than or equal to its own
InsertReverse(sorted, x) ==
    IF sorted = <<>> THEN <<x>>
    ELSE IF Head(sorted)[2] >= x[2]
         THEN <<Head(sorted)>> \o InsertReverse(Tail(sorted), x)
         ELSE <<x>> \o sorted

RECURSIVE SortedReverse(_)
\* sorted(items, key=lambda x: x[1], reverse=True): stable, so items of equal
\* score keep their order
SortedReverse(items) ==
    IF items = <<>> THEN <<>>
    ELSE InsertReverse(SortedReverse(SubSeq(items, 1, Len(items) - 1)),
                       items[Len(items)])

\* seq[1:6]
Slice1to6(seq) == SubSeq(seq, 2, Min(6, Len(seq)))

\* app.py:87-88
SortedItems(row) == Slice1to6(SortedReverse(Enumerate(row)))

\* app.py:82-102: the lookup, inside the try
Lookup(s, book_name) ==
    IF ~InIndex(s.pt.index, book_name)
    THEN Message(book_name, NotFound(book_name))
    ELSE LET index == GetLoc(s.pt.index, book_name)
         IN  IF s.scores.type # "ndarray" \/ index + 1 > Len(s.scores.rows)
             THEN Message(book_name, Unexpected)
             ELSE LET sorted_items == SortedItems(s.scores.rows[index + 1])
                  IN  IF \E j \in 1..Len(sorted_items) :
                             sorted_items[j][1] + 1 > Len(s.pt.index)
                      THEN Message(book_name, Unexpected)
                      ELSE Titles(book_name,
                                  [j \in 1..Len(sorted_items) |->
                                      s.pt.index[sorted_items[j][1] + 1]])

\* app.py:68-102: everything recommend(book_name) can give back
RecommendOutcomes(s, book_name) ==
    IF ~IsDataFrame(s.pt) THEN {Raise(book_name, "AttributeError")}
    ELSE IF Empty(s.pt) \/ s.scores = None THEN Degraded(s, book_name)
    ELSE {Lookup(s, book_name)}

----------------------------------------------------------------------------
(* The pickles recommendation_system.pkl can hold, and the queries *)

AllTitles == <<"A", "B", "C", "D", "E", "F", "G", "H", "I", "J">>

\* a pivot of n books: the titles are its index, the ratings its cells
PivotFrame(n) ==
    DataFrame(SubSeq(AllTitles, 1, n), {"user"}, [c \in {"user"} |-> [i \in 1..n |-> 0]])

\* a popularity table with these titles
PopFrame(titles) ==
    DataFrame(RangeIndex(Len(titles)), {"Book-Title", "Num-Ratings"},
              ("Book-Title" :> titles) @@
              ("Num-Ratings" :> [i \in 1..Len(titles) |-> 100 - i]))

\* a table of one row that has no 'Book-Title' column
UntitledFrame == DataFrame(RangeIndex(1), {"Num-Ratings"}, ("Num-Ratings" :> <<99>>))

\* a pivot with rows and no columns: DataFrame.empty holds of it
NoColumnsFrame == DataFrame(SubSeq(AllTitles, 1, 2), {}, [c \in {} |-> <<>>])

\* a similarity matrix whose rows all equal row
Matrix(n, row) == [type |-> "ndarray", rows |-> [i \in 1..n |-> row]]

\* the row scoring book j 1 and every other book 0
OneHot(n, j) == [i \in 1..n |-> IF i = j THEN 1 ELSE 0]

\* n titles "P1".."Pn", and the same with the second row repeating "P1"
PopTitles(n) == [i \in 1..n |-> "P" \o ToString(i)]
RepeatedTitles(n) == [i \in 1..n |-> IF i = 2 THEN "P1" ELSE "P" \o ToString(i)]

PopPool ==
    {EmptyFrame, None, UntitledFrame, PopFrame(<<>>),
     PopFrame(PopTitles(PopRows)), PopFrame(RepeatedTitles(PopRows))}

\* the numbers of rows of the pivots and matrices of the pickles
RowCounts == {LoadRows - 1, LoadRows}

PivotPool ==
    {PivotFrame(n) : n \in {0} \cup RowCounts}
        \cup {NoColumnsFrame, [type |-> "list", items |-> <<>>]}

ScoresPool ==
    {None, [type |-> "int", value |-> 7]}
        \cup UNION {{Matrix(n, OneHot(n, j)) : j \in 1..n} : n \in RowCounts}

Tuple(items) == [type |-> "tuple", items |-> items]
Dict(items) == [type |-> "dict", items |-> items]

\* the dicts with any of the three keys: a popularity table, a pivot, a value
\* of the scores pool
DictPool ==
    {Dict([k \in keys |-> CASE k = "popular_df" -> p
                            [] k = "pt" -> t
                            [] OTHER -> m]) :
        keys \in SUBSET {"popular_df", "pt", "scores"},
        p \in {PopFrame(<<>>), PopFrame(PopTitles(PopRows))},
        t \in {PivotFrame(n) : n \in {0} \cup RowCounts},
        m \in ScoresPool}

Pickles ==
    {Tuple(<<p, t, m>>) : p \in PopPool, t \in PivotPool, m \in ScoresPool}
        \cup {Tuple(<<PopFrame(<<"P1">>), PivotFrame(1)>>)}
        \cup DictPool
        \cup {PopFrame(<<"P1">>), UntitledFrame, [type |-> "int", value |-> 7]}

\* the file as open() and pickle.load() find it
Files ==
    {[state |-> "missing"], [state |-> "corrupt"]}
        \cup {[state |-> "ok", data |-> d] : d \in Pickles}

Queries == Range(SubSeq(AllTitles, 1, LoadRows)) \cup {"Z"}

----------------------------------------------------------------------------
(* The core called one function at a time *)

Idle == [pc |-> "idle"]

Init ==
    /\ popular_df = InitStore.popular_df
    /\ pt = InitStore.pt
    /\ scores = InitStore.scores
    /\ all_books = InitStore.all_books
    /\ ret = [op |-> "import"]
    /\ load_calls = 0
    /\ loader = Idle
    /\ reader = Idle

\* the four globals become those of s
SetStore(s) ==
    /\ popular_df' = s.popular_df
    /\ pt' = s.pt
    /\ scores' = s.scores
    /\ all_books' = s.all_books

LoadModelComponents(file) ==
    /\ LET s == LoadResult(Store, file) IN SetStore(s)
    /\ ret' = [op |-> "load", failed |-> LoadRaises(Store, file)]
    /\ UNCHANGED <<load_calls, loader, reader>>

Recommend(book_name) ==
    /\ \E r \in RecommendOutcomes(Store, book_name) : ret' = r
    /\ UNCHANGED <<popular_df, pt, scores, all_books, load_calls, loader, reader>>

Next ==
    \/ \E file \in Files : LoadModelComponents(file)
    \/ \E book_name \in Queries : Recommend(book_name)

Spec == Init /\ [][Next]_vars

----------------------------------------------------------------------------
(* recommend() on the stores a three-element pickle leaves *)

\* the row of the worked example, in hundredths: 1.0, 0.9, 0.2, 0.8, 0.1, 0.7, 0.05
ExampleRow == <<100, 90, 20, 80, 10, 70, 5>>

\* a pickle with a pivot of n books and an n x n similarity matrix
LoadedPickle(n, row) ==
    Tuple(<<PopFrame(<<"P1">>), PivotFrame(n), Matrix(n, row)>>)

\* the rows tried for a pivot of n books: every row over 0..MaxScore, and the
\* row of the worked example
Rows(n) ==
    [1..n -> 0..MaxScore] \cup (IF n = Len(ExampleRow) THEN {ExampleRow} ELSE {})

RecQueries == Range(SubSeq(AllTitles, 1, MaxRows)) \cup {"Z"}

\* the state after one load_model_components() of such a pickle
InitLoaded ==
    \E n \in 1..MaxRows :
        \E row \in Rows(n) :
            LET s == LoadResult(InitStore,
                                [state |-> "ok", data |-> LoadedPickle(n, row)])
            IN  /\ popular_df = s.popular_df
                /\ pt = s.pt
                /\ scores = s.scores
                /\ all_books = s.all_books
                /\ ret = [op |-> "load", failed |-> FALSE]
                /\ load_calls = 0
                /\ loader = Idle
                /\ reader = Idle

NextRecommend == \E book_name \in RecQueries : Recommend(book_name)

SpecRecommend == InitLoaded /\ [][NextRecommend]_vars

----------------------------------------------------------------------------
(* The Flask application: startup() runs before the view of every request *)

\* the files the requests of SpecApp and the threads of SpecThreads find
AppPickles ==
    {Tuple(<<PopFrame(<<"P1">>), PivotFrame(2), Matrix(2, OneHot(2, 1))>>),
     Tuple(<<PopFrame(<<"P1", "P2">>), PivotFrame(3), Matrix(3, OneHot(3, 3))>>)}

AppFiles ==
    {[state |-> "missing"]} \cup {[state |-> "ok", data |-> d] : d \in AppPickles}

AppQueries == {"A", "C", "Z"}

\* app.py:109-112: the before_request hook
Startup(file) ==
    /\ load_calls < MaxRequests
    /\ LET s == LoadResult(Store, file) IN SetStore(s)
    /\ load_calls' = load_calls + 1
    /\ UNCHANGED <<loader, reader>>

\* app.py:114-117
IndexPage(file) ==
    /\ Startup(file)
    /\ ret' = [op |-> "index"]

\* app.py:119-127
GetPopularBooksApi(file) ==
    /\ Startup(file)
    /\ ret' = [op |-> "get_popular_books",
               value |-> SubSeq(BookTitles(popular_df'), 1,
                                Min(50, Len(popular_df'.index)))]

\* app.py:129-134
GetAllBooksApi(file) ==
    /\ Startup(file)
    /\ ret' = [op |-> "get_all_books", value |-> all_books']

\* app.py:137-153; a body without 'book_name' is answered 400
GetRecommendationApi(file, body) ==
    /\ Startup(file)
    /\ IF "book_name" \notin DOMAIN body
       THEN ret' = [op |-> "get_recommendations", status |-> 400]
       ELSE \E r \in RecommendOutcomes(LoadResult(Store, file), body.book_name) :
                ret' = r

Bodies == {[other |-> "x"]} \cup {[book_name |-> q] : q \in AppQueries}

NextApp ==
    \/ \E file \in AppFiles : IndexPage(file)
    \/ \E file \in AppFiles : GetPopularBooksApi(file)
    \/ \E file \in AppFiles : GetAllBooksApi(file)
    \/ \E file \in AppFiles, body \in Bodies : GetRecommendationApi(file, body)

SpecApp == Init /\ [][NextApp]_vars

----------------------------------------------------------------------------
(* Two request threads: one inside load_model_components(), one inside      *)
(* recommend().  A step is one read or one write of a global.               *)

\* app.py:26-27: open() and pickle.load()
LoaderOpen(file) ==
    /\ loader.pc = "idle"
    /\ loader' = IF file.state # "ok" THEN [pc |-> "except_popular_df"]
                 ELSE [pc |-> "store_popular_df", data |-> file.data]
    /\ UNCHANGED <<popular_df, pt, scores, all_books, ret, load_calls, reader>>

\* app.py:32, 35, 40: the assignment to popular_df
LoaderStorePopular ==
    /\ loader.pc = "store_popular_df"
    /\ popular_df' = Classify(Store, loader.data).popular_df
    /\ loader' = [loader EXCEPT !.pc =
                     IF loader.data.type \in {"tuple", "list", "dict"}
                     THEN "store_pt" ELSE "post"]
    /\ UNCHANGED <<pt, scores, all_books, ret, load_calls, reader>>

\* app.py:32, 36: the assignment to pt
LoaderStorePt ==
    /\ loader.pc = "store_pt"
    /\ pt' = Classify(Store, loader.data).pt
    /\ loader' = [loader EXCEPT !.pc = "store_scores"]
    /\ UNCHANGED <<popular_df, scores, all_books, ret, load_calls, reader>>

\* app.py:32, 37: the assignment to scores
LoaderStoreScores ==
    /\ loader.pc = "store_scores"
    /\ scores' = Classify(Store, loader.data).scores
    /\ loader' = [loader EXCEPT !.pc = "post"]
    /\ UNCHANGED <<popular_df, pt, all_books, ret, load_calls, reader>>

\* app.py:43-49: the assignment to all_books, or the exception
LoaderPost ==
    /\ loader.pc = "post"
    /\ IF PostLoadRaises(Store)
       THEN loader' = [pc |-> "except_popular_df"] /\ all_books' = all_books
       ELSE loader' = Idle /\ all_books' = PostLoad(Store).all_books
    /\ UNCHANGED <<popular_df, pt, scores, ret, load_calls, reader>>

\* app.py:57-62
LoaderExceptPopular ==
    /\ loader.pc = "except_popular_df"
    /\ popular_df' = MockFrame
    /\ loader' = [pc |-> "except_all_books"]
    /\ UNCHANGED <<pt, scores, all_books, ret, load_calls, reader>>

\* app.py:64
LoaderExceptBooks ==
    /\ loader.pc = "except_all_books"
    /\ all_books' = Fallback(Store).all_books
    /\ loader' = Idle
    /\ UNCHANGED <<popular_df, pt, scores, ret, load_calls, reader>>

\* the reader leaves recommend() with r
ReaderLeaves(r) == reader' = Idle /\ ret' = r

\* the reader goes on to pc with its locals changed
ReaderGoes(next) == reader' = next /\ ret' = ret

\* app.py:68: the call; seen_pt and seen_scores record the values of pt and
\* scores this call reads
ReaderCall(book_name) ==
    /\ reader.pc = "idle"
    /\ reader' = [pc |-> "check_pt", book_name |-> book_name, index |-> 0,
                  sorted_items |-> <<>>, recommendations |-> <<>>,
                  seen_pt |-> {}, seen_scores |-> {}]
    /\ UNCHANGED <<popular_df, pt, scores, all_books, ret, load_calls, loader>>

\* app.py:74: pt.empty
ReaderCheckPt ==
    /\ reader.pc = "check_pt"
    /\ LET r == [reader EXCEPT !.seen_pt = @ \cup {pt}]
       IN  IF ~IsDataFrame(pt)
           THEN ReaderLeaves(Raise(reader.book_name, "AttributeError"))
           ELSE ReaderGoes([r EXCEPT !.pc = IF Empty(pt) THEN "degraded"
                                            ELSE "check_scores"])
    /\ UNCHANGED <<popular_df, pt, scores, all_books, load_calls, loader>>

\* app.py:74: scores is None
ReaderCheckScores ==
    /\ reader.pc = "check_scores"
    /\ reader' = [reader EXCEPT !.seen_scores = @ \cup {scores},
                                !.pc = IF scores = None THEN "degraded"
                                       ELSE "get_loc"]
    /\ UNCHANGED <<popular_df, pt, scores, all_books, ret, load_calls, loader>>

\* app.py:78-79: popular_df.empty
ReaderDegraded ==
    /\ reader.pc = "degraded"
    /\ IF ~IsDataFrame(popular_df)
       THEN ReaderLeaves(Raise(reader.book_name, "AttributeError"))
       ELSE IF Empty(popular_df)
            THEN ReaderLeaves(Message(reader.book_name, Unavailable))
            ELSE ReaderGoes([reader EXCEPT !.pc = "sample"])
    /\ UNCHANGED <<popular_df, pt, scores, all_books, load_calls, loader>>

\* app.py:80
ReaderSample ==
    /\ reader.pc = "sample"
    /\ \E r \in SampleTitles(popular_df, reader.book_name) : ReaderLeaves(r)
    /\ UNCHANGED <<popular_df, pt, scores, all_books, load_calls, loader>>

\* app.py:84: pt.index.get_loc(book_name)
ReaderGetLoc ==
    /\ reader.pc = "get_loc"
    /\ IF ~IsDataFrame(pt)
       THEN ReaderLeaves(Message(reader.book_name, Unexpected))
       ELSE IF ~InIndex(pt.index, reader.book_name)
            THEN ReaderLeaves(Message(reader.book_name, NotFound(reader.book_name)))
            ELSE ReaderGoes([reader EXCEPT
                    !.seen_pt = @ \cup {pt},
                    !.index = GetLoc(pt.index, reader.book_name),
                    !.pc = "row"])
    /\ UNCHANGED <<popular_df, pt, scores, all_books, load_calls, loader>>

\* app.py:87-88: scores[index], sorted and sliced
ReaderRow ==
    /\ reader.pc = "row"
    /\ IF scores.type # "ndarray" \/ reader.index + 1 > Len(scores.rows)
       THEN ReaderLeaves(Message(reader.book_name, Unexpected))
       ELSE LET items == SortedItems(scores.rows[reader.index + 1])
            IN  ReaderGoes([reader EXCEPT
                    !.seen_scores = @ \cup {scores},
                    !.sorted_items = items,
                    !.pc = IF items = <<>> THEN "return" ELSE "map"])
    /\ UNCHANGED <<popular_df, pt, scores, all_books, load_calls, loader>>

\* app.py:91-94: one turn of the loop, pt.index[i]
ReaderMap ==
    /\ reader.pc = "map"
    /\ LET i == Head(reader.sorted_items)[1]
       IN  IF ~IsDataFrame(pt) \/ i + 1 > Len(pt.index)
           THEN ReaderLeaves(Message(reader.book_name, Unexpected))
           ELSE ReaderGoes([reader EXCEPT
                    !.seen_pt = @ \cup {pt},
                    !.recommendations = Append(@, pt.index[i + 1]),
                    !.sorted_items = Tail(@),
                    !.pc = IF Tail(reader.sorted_items) = <<>> THEN "return"
                           ELSE "map"])
    /\ UNCHANGED <<popular_df, pt, scores, all_books, load_calls, loader>>

\* app.py:96
ReaderReturn ==
    /\ reader.pc = "return"
    /\ ReaderLeaves(Titles(reader.book_name, reader.recommendations))
    /\ UNCHANGED <<popular_df, pt, scores, all_books, load_calls, loader>>

NextThreads ==
    \/ \E file \in AppFiles : LoaderOpen(file)
    \/ LoaderStorePopular
    \/ LoaderStorePt
    \/ LoaderStoreScores
    \/ LoaderPost
    \/ LoaderExceptPopular
    \/ LoaderExceptBooks
    \/ \E book_name \in AppQueries : ReaderCall(book_name)
    \/ ReaderCheckPt
    \/ ReaderCheckScores
    \/ ReaderDegraded
    \/ ReaderSample
    \/ ReaderGetLoc
    \/ ReaderRow
    \/ ReaderMap
    \/ ReaderReturn

SpecThreads == Init /\ [][NextThreads]_vars

\* the pt and scores a load that completes leaves together
CompletedPairs ==
    {<<InitStore.pt, InitStore.scores>>}
        \cup {<<d.items[2], d.items[3]>> : d \in AppPickles}

----------------------------------------------------------------------------
(* Properties *)

\* the loaded state: a non-empty pivot and a similarity matrix
Loaded == IsDataFrame(pt) /\ ~Empty(pt) /\ scores # None
\* the degraded state: an empty pivot or no similarity matrix
DegradedState == IsDataFrame(pt) /\ (Empty(pt) \/ scores = None)

\* sub occurs in text
Contains(text, sub) ==
    \E i \in 1..(Len(text) - Len(sub) + 1) : SubSeq(text, i, i + Len(sub) - 1) = sub

\* C1: in the loaded state the list recommend(t) returns for a title t of the
\* pivot never holds t itself, whatever the similarity row is.
C1_NeverSelf ==
    (ret.op = "recommend" /\ ret.kind = "titles" /\ Loaded
        /\ InIndex(pt.index, ret.arg))
    => \A j \in 1..Len(ret.value) : ret.value[j] # ret.arg

\* C2: with n pivot rows and a similarity row of length n, recommend(t) for a
\* known t returns the titles ranked 2..6 by score descending, ties by
\* position ascending, in that order: min(5, n - 1) of them; the worked example
\* gives B, D, F, C, E.
C2_RankedTopFive ==
    (ret.op = "recommend" /\ Loaded /\ InIndex(pt.index, ret.arg))
    => LET n == Len(pt.index)
           row == scores.rows[GetLoc(pt.index, ret.arg) + 1]
           Rank(i) == 1 + Cardinality({k \in 1..n :
                              row[k] > row[i] \/ (row[k] = row[i] /\ k < i)})
       IN  /\ ret.kind = "titles"
           /\ Len(ret.value) = Min(5, n - 1)
           /\ \A j \in 1..Len(ret.value) :
                  \E i \in 1..n : Rank(i) = j + 1 /\ ret.value[j] = pt.index[i]
           /\ (row = ExampleRow /\ ret.arg = "A")
                  => ret.value = <<"B", "D", "F", "C", "E">>

\* C2's case: the worked example has been asked for A
C2_Witness ==
    /\ ret.op = "recommend" /\ ret.arg = "A"
    /\ scores = Matrix(7, ExampleRow)
    /\ ret.value = <<"B", "D", "F", "C", "E">>

\* C3: every title recommend() returns as a recommendation is in all_books as
\* it stands at the time of the call.
C3_RecommendationsKnown ==
    (ret.op = "recommend" /\ ret.kind = "titles")
    => \A j \in 1..Len(ret.value) : ret.value[j] \in Range(all_books)

\* C4: in the loaded state recommend(t) for a t that is not in the pivot's
\* index does not raise and returns one string that contains t, and the four
\* globals are left as they were.
C4_UnknownTitle ==
    [][(ret'.op = "recommend" /\ Loaded /\ ~InIndex(pt.index, ret'.arg))
        => /\ ret'.kind = "message"
           /\ Len(ret'.value) = 1
           /\ Contains(ret'.value[1], ret'.arg)
           /\ UNCHANGED store_vars]_vars

\* C4's case: an unknown title has been asked of a loaded store
C4_Witness ==
    /\ ret.op = "recommend" /\ Loaded /\ ~InIndex(pt.index, ret.arg)
    /\ ret.kind = "message"

\* C5: in the degraded state with a non-empty popularity table recommend(x)
\* returns between 1 and 5 titles, pairwise distinct, each a title of the
\* popularity table.
C5_DegradedSample ==
    (ret.op = "recommend" /\ DegradedState /\ HasTitles(popular_df)
        /\ ~Empty(popular_df))
    => /\ ret.kind = "titles"
       /\ Len(ret.value) \in 1..5
       /\ \A i, j \in 1..Len(ret.value) : i # j => ret.value[i] # ret.value[j]
       /\ \A j \in 1..Len(ret.value) : ret.value[j] \in Range(BookTitles(popular_df))

\* C6: a load that fails returns normally and leaves the 50 entries "Mock
\* Popular Book 1".."Mock Popular Book 50", in that order and with strictly
\* increasing Num-Ratings, as popular_df and exactly their titles as all_books.
C6_FallbackAfterFailure ==
    (ret.op = "load" /\ ret.failed)
    => /\ IsDataFrame(popular_df)
       /\ Len(popular_df.index) = 50
       /\ Len(BookTitles(popular_df)) = 50
       /\ \A i \in 1..50 :
              BookTitles(popular_df)[i] = "Mock Popular Book " \o ToString(i)
       /\ \A i \in 1..49 :
              popular_df.data["Num-Ratings"][i] < popular_df.data["Num-Ratings"][i + 1]
       /\ all_books = BookTitles(popular_df)

\* C6's case: a load has failed after it had assigned a pt that is no table
C6_Witness == ret.op = "load" /\ ret.failed /\ ~IsDataFrame(pt)

\* C7: recommend(x) never lets an exception out and returns at most 5 strings,
\* in every state the loader can leave.
C7_Total ==
    ret.op = "recommend" => (ret.kind # "raise" /\ Len(ret.value) <= 5)

\* C8: after every load the four globals are a function of the file that load
\* read and of nothing stored before, and after a failed load pt is empty and
\* scores is None.
C8_ReloadReplaces ==
    [][\A file \in Files :
          LoadModelComponents(file)
          => /\ Store' = LoadResult(InitStore, file)
             /\ LoadRaises(Store, file)
                    => (IsDataFrame(pt') /\ Empty(pt') /\ scores' = None)]_vars

\* C10: the loader runs once, before the first request, and nothing writes
\* popular_df, pt, scores or all_books once that load has completed.
C10_LoadedOnce ==
    [][load_calls >= 1 => (load_calls' = load_calls /\ UNCHANGED store_vars)]_vars

\* C9: within one recommend() call every read of pt and of scores sees the
\* pt and scores of one completed load.
C9_OneSnapshot ==
    reader.pc = "return"
    => \E pair \in CompletedPairs :
           /\ reader.seen_pt \subseteq {pair[1]}
           /\ reader.seen_scores \subseteq {pair[2]}

====
